---- MODULE Spec2Model ----
(***************************************************************************)
(* A model of UrlSlugAgent (src/src/index.ts): the slug derivation, the    *)
(* URL composition and the wrappers that call the text-completion,         *)
(* tabular-store and inference collaborators.                              *)
(*                                                                         *)
(* A JavaScript string is a sequence of one-character strings.             *)
(***************************************************************************)
EXTENDS Integers, Sequences, FiniteSets, TLC

VARIABLES
    fn,          \* the function of the last invocation ("none" before any)
    query,       \* its text argument (query, search term or preference)
    baseUrl,     \* its baseUrl argument, or NoBase when not passed
    creds,       \* which of the three Secret arguments were passed
    slug,        \* the slug the invocation chose
    fullUrl,     \* the URL the invocation composed
    llmResponse, \* generatePodcast's llmResponse (line 214)
    calls,       \* outbound collaborator calls of the invocation, in order,
                 \* each with the reply the collaborator gave
    unhandled,   \* failed calls whose rejection nothing awaited or caught
    status,      \* "idle", "returned" or "raised"
    result,      \* the value returned to the caller
    store        \* the podcasts table, most recent row first

vars == <<fn, query, baseUrl, creds, slug, fullUrl, llmResponse, calls,
          unhandled, status, result, store>>

-----------------------------------------------------------------------------
(* Characters *)

UpperSeq == <<"A","B","C","D","E","F","G","H","I","J","K","L","M",
              "N","O","P","Q","R","S","T","U","V","W","X","Y","Z">>

LowerSeq == <<"a","b","c","d","e","f","g","h","i","j","k","l","m",
              "n","o","p","q","r","s","t","u","v","w","x","y","z">>

Range(s) == {s[i] : i \in DOMAIN s}

UpperLetters == Range(UpperSeq)

LowerLetters == Range(LowerSeq)

Digits == {"0","1","2","3","4","5","6","7","8","9"}

\* \s of a JavaScript regular expression (the ASCII members)
Spaces == {" ", "\t", "\n", "\r"}

IsSpace(c) == c \in Spaces

\* \w of a JavaScript regular expression: [A-Za-z0-9_]
IsWordChar(c) == c \in UpperLetters \cup LowerLetters \cup Digits \cup {"_"}

\* String.prototype.toLowerCase, one character
LowerChar(c) ==
    IF c \in UpperLetters
    THEN LowerSeq[CHOOSE i \in DOMAIN UpperSeq : UpperSeq[i] = c]
    ELSE c

-----------------------------------------------------------------------------
(* String operations used by the code *)

Min(a, b) == IF a < b THEN a ELSE b

toLowerCase(s) == [i \in DOMAIN s |-> LowerChar(s[i])]

\* the part of s from its first to its last character that is not in `strip`
between(s, strip) ==
    IF \A i \in DOMAIN s : s[i] \in strip THEN <<>>
    ELSE LET lo == CHOOSE i \in DOMAIN s :
                       s[i] \notin strip /\ \A j \in 1..(i - 1) : s[j] \in strip
             hi == CHOOSE i \in DOMAIN s :
                       s[i] \notin strip /\ \A j \in (i + 1)..Len(s) : s[j] \in strip
         IN  SubSeq(s, lo, hi)

\* String.prototype.trim
trim(s) == between(s, Spaces)

\* s.substring(0, n)
substring0(s, n) == SubSeq(s, 1, Min(n, Len(s)))

\* s.split(/\s+/): the pieces between maximal runs of whitespace; "" gives [""]
RECURSIVE splitWs(_)
splitWs(s) ==
    LET ws == {i \in DOMAIN s : IsSpace(s[i])}
    IN  IF ws = {} THEN <<s>>
        ELSE LET i == CHOOSE k \in ws : \A j \in ws : k <= j
                 after == {k \in (i + 1)..Len(s) : ~IsSpace(s[k])}
                 j == IF after = {} THEN Len(s) + 1
                      ELSE CHOOSE k \in after : \A m \in after : k <= m
             IN  <<SubSeq(s, 1, i - 1)>> \o splitWs(SubSeq(s, j, Len(s)))

\* s.split(' '): the pieces between single spaces
RECURSIVE splitSpace(_)
splitSpace(s) ==
    LET sp == {i \in DOMAIN s : s[i] = " "}
    IN  IF sp = {} THEN <<s>>
        ELSE LET i == CHOOSE k \in sp : \A j \in sp : k <= j
             IN  <<SubSeq(s, 1, i - 1)>> \o splitSpace(SubSeq(s, i + 1, Len(s)))

\* words.join('-')
RECURSIVE joinHyphen(_)
joinHyphen(ws) ==
    IF ws = <<>> THEN <<>>
    ELSE IF Len(ws) = 1 THEN ws[1]
    ELSE ws[1] \o <<"-">> \o joinHyphen(Tail(ws))

\* topic.includes(keyword)
includes(s, k) ==
    \E i \in 1..(Len(s) - Len(k) + 1) : SubSeq(s, i, i + Len(k) - 1) = k

\* .replace(/[^\w\s-]/g, '')
KeepWordSpaceHyphen(c) == IsWordChar(c) \/ IsSpace(c) \/ c = "-"

stripSpecial(s) == SelectSeq(s, KeepWordSpaceHyphen)

\* .replace(/[\s_-]+/g, '-')
IsSeparator(c) == IsSpace(c) \/ c = "_" \/ c = "-"

collapseSeparators(s) ==
    LET starts(i) == ~IsSeparator(s[i]) \/ i = 1 \/ ~IsSeparator(s[i - 1])
        kept == SelectSeq([i \in DOMAIN s |-> i], starts)
    IN  [k \in DOMAIN kept |-> IF IsSeparator(s[kept[k]]) THEN "-" ELSE s[kept[k]]]

\* .replace(/^-+|-+$/g, '')
stripHyphens(s) == between(s, {"-"})

-----------------------------------------------------------------------------
(* Slug derivation *)

\* descriptors (line 592)
descriptors ==
    << <<"d","e","e","p","-","d","i","v","e">>,
       <<"e","x","p","l","a","i","n","e","d">>,
       <<"g","u","i","d","e">>,
       <<"i","n","s","i","g","h","t","s">>,
       <<"s","t","o","r","i","e","s">>,
       <<"j","o","u","r","n","e","y">>,
       <<"e","x","p","l","o","r","a","t","i","o","n">>,
       <<"b","r","e","a","k","d","o","w","n">> >>

\* the values Math.floor(Math.random() * descriptors.length) takes, 1-based
DescriptorChoices == DOMAIN descriptors

\* .substring(0, 50)
SlugLimit == 50

\* .slice(0, 3)
MaxWords == 3

\* a slip in the filter: word.length >= 2
IsMeaningfulWord_AtLeastTwo(word) == Len(word) >= 2

\* word.length > 2
IsMeaningfulWord(word) == Len(word) > 2

\* the cleaning chain of lines 605-609 up to, not including, the truncation
cleanAndFormat(s) == stripHyphens(collapseSeparators(stripSpecial(s)))

\* complexSlug after line 602: the kept words joined, "-" and the descriptor
complexSlug(input, d) ==
    LET words == splitWs(trim(toLowerCase(input)))
        meaningful == SelectSeq(words, IsMeaningfulWord)
    IN  joinHyphen(SubSeq(meaningful, 1, Min(MaxWords, Len(meaningful))))
            \o <<"-">> \o descriptors[d]

\* the mistake of leaving out line 602, which appends the descriptor
createSlug_NoDescriptor(input, d) ==
    LET words == splitWs(trim(toLowerCase(input)))
        meaningful == SelectSeq(words, IsMeaningfulWord)
    IN  substring0(cleanAndFormat(joinHyphen(SubSeq(meaningful, 1,
                                                    Min(MaxWords, Len(meaningful))))),
                   SlugLimit)

\* createSlug of the current class (lines 587-610); d is the random index
createSlug(input, d) == substring0(cleanAndFormat(complexSlug(input, d)), SlugLimit)

\* createSlug of the first class (lines 140-151): no descriptor
createSlug_v1(input) ==
    substring0(cleanAndFormat(trim(toLowerCase(input))), SlugLimit)

-----------------------------------------------------------------------------
(* URL composition *)

\* the optional baseUrl argument: not passed (undefined), or a string
NoBase == [given |-> FALSE, value |-> <<>>]

Base(s) == [given |-> TRUE, value |-> s]

DefaultBase ==
    <<"h","t","t","p","s",":","/","/","r","i","c","k","r","o","l","l","w","o","r",
      "k","e","r",".","l","i","z","z","i","e","p","i","k","a",".","w","o","r","k",
      "e","r","s",".","d","e","v">>

\* baseUrl || "https://rickrollworker.lizziepika.workers.dev":
\* undefined and the empty string are both falsy
baseOrDefault(b) == IF ~b.given \/ b.value = <<>> THEN DefaultBase ELSE b.value

\* a slip in the pattern: /\/+$/ removes every trailing "/"
stripOneSlash_All(b) ==
    IF \A i \in DOMAIN b : b[i] = "/" THEN <<>>
    ELSE LET hi == CHOOSE i \in DOMAIN b :
                       b[i] # "/" /\ \A j \in (i + 1)..Len(b) : b[j] = "/"
         IN  SubSeq(b, 1, hi)

\* base.replace(/\/$/, ''): one "/" at the very end, if there is one
stripOneSlash(b) ==
    IF Len(b) > 0 /\ b[Len(b)] = "/" THEN SubSeq(b, 1, Len(b) - 1) ELSE b

\* `${base.replace(/\/$/, '')}/${slug}`
composeUrl(b, s) == stripOneSlash(baseOrDefault(b)) \o <<"/">> \o s

-----------------------------------------------------------------------------
(* Values shared by the invocations *)

\* the three optional Secret arguments: TRUE when passed
NoCreds == [accountId |-> FALSE, databaseId |-> FALSE, apiToken |-> FALSE]

\* a returned string: a fixed message (msg), free text (text) or formatted rows
Text(k, t) == [kind |-> k, msg |-> "", text |-> t, rows |-> <<>>]

NoResult == [kind |-> "none", msg |-> "", text |-> <<>>, rows |-> <<>>]

\* a fixed message
Fixed(k, m) == [kind |-> k, msg |-> m, text |-> <<>>, rows |-> <<>>]

\* rows formatted into text, under a heading that quotes t
Formatted(k, t, rs) == [kind |-> k, msg |-> "", text |-> t, rows |-> rs]

Call(to, reply) == [to |-> to, reply |-> reply]

-----------------------------------------------------------------------------
(* The text-completion collaborator (dag.llm) *)

\* what the collaborator writes for the prompt of lines 199-212 with $query
\* and $url substituted: free text, here the topic and the URL it is told to
\* mention
completion(q, url) == Text("completion", q \o <<" ">> \o url)

\* what happens to the request sync() sends
LLMOutcomes == {"resolved", "rejected"}

\* slugWork.sync().toString() and work.sync().toString(): sync() is async and
\* returns a Promise; toString() is applied to that Promise, before the await,
\* and gives "[object Promise]" whatever the collaborator answers later.
PromiseString == <<"[","o","b","j","e","c","t"," ","P","r","o","m","i","s","e","]">>

\* the candidate check compares with this (line 261)
objectpromise == <<"o","b","j","e","c","t","p","r","o","m","i","s","e">>

\* the mistake the code's check guards against, left unguarded
isUsableCandidate_NoCheck(cleanedSlug) == TRUE

\* cleanedSlug.length > 0 && cleanedSlug !== 'objectpromise' (line 261)
isUsableCandidate(cleanedSlug) == Len(cleanedSlug) > 0 /\ cleanedSlug # objectpromise

\* .replace(/[^a-z0-9-]/g, '')
IsSlugChar(c) == c \in LowerLetters \cup Digits \cup {"-"}

\* .replace(/-+/g, '-')
collapseHyphens(s) ==
    LET starts(i) == s[i] # "-" \/ i = 1 \/ s[i - 1] # "-"
        kept == SelectSeq([i \in DOMAIN s |-> i], starts)
    IN  [k \in DOMAIN kept |-> s[kept[k]]]

\* the cleaning of line 258
cleanCandidate(rawSlug) ==
    stripHyphens(collapseHyphens(SelectSeq(toLowerCase(trim(rawSlug)), IsSlugChar)))

\* lines 257-265 of generateLLMSlug: from the string read off sync() to the slug
slugFromRaw(rawSlug, q, d) ==
    LET cleanedSlug == cleanCandidate(rawSlug)
    IN  IF isUsableCandidate(cleanedSlug) THEN cleanedSlug ELSE createSlug(q, d)

\* generateLLMSlug (lines 227-270). Nothing inside the try can throw: the
\* builders are lazy and the Promise of sync() is not awaited, so the catch of
\* line 266 is never entered and a rejection stays unhandled.
generateLLMSlug(q, d) == slugFromRaw(PromiseString, q, d)

-----------------------------------------------------------------------------
(* The tabular store (D1 behind curl) *)

\* the credential check with && for ||: it fires only when all three are absent
credentialsMissing_AllAbsent(c) == ~c.accountId /\ ~c.databaseId /\ ~c.apiToken

\* !cloudflareAccountId || !cloudflareDatabaseId || !cloudflareApiToken
credentialsMissing(c) == ~c.accountId \/ ~c.databaseId \/ ~c.apiToken

\* cloudflareAccountId && cloudflareDatabaseId && cloudflareApiToken (line 217)
allCredentials(c) == c.accountId /\ c.databaseId /\ c.apiToken

\* x.replace(/"/g, '\\"')
RECURSIVE escapeQuotes(_)
escapeQuotes(x) ==
    IF x = <<>> THEN <<>>
    ELSE (IF Head(x) = "\"" THEN <<"\\", "\"">> ELSE <<Head(x)>>) \o escapeQuotes(Tail(x))

\* the store's reading of a JSON string body: \" is a quote, \\ a backslash
\* and \/ a slash
RECURSIVE jsonUnescape(_)
jsonUnescape(x) ==
    IF x = <<>> THEN <<>>
    ELSE IF Head(x) = "\\" /\ Len(x) >= 2
         THEN <<x[2]>> \o jsonUnescape(Tail(Tail(x)))
         ELSE <<Head(x)>> \o jsonUnescape(Tail(x))

\* the row the INSERT of line 576 adds; at is new Date().toISOString()
insertedRow(topic, sl, url, at) ==
    [topic |-> jsonUnescape(escapeQuotes(topic)),
     slug |-> jsonUnescape(escapeQuotes(sl)),
     url |-> jsonUnescape(escapeQuotes(url)),
     created_at |-> at]

\* what can happen to the INSERT: it is applied, curl fails (stdout() rejects),
\* or the API answers with an error body (curl -s still exits 0)
PersistOutcomes == {"ok", "transport", "apiError"}

\* the clock of the writer: later inserts carry later timestamps
now(st) == Len(st) + 1

\* the mistake of leaving the catch out of savePodcastToD1
savePodcastToD1_NoCatch(topic, sl, url, st, outcome) ==
    [threw |-> outcome = "transport",
     store |-> IF outcome = "ok" THEN Append(st, insertedRow(topic, sl, url, now(st))) ELSE st]

\* savePodcastToD1 (lines 549-582): the catch of line 579 swallows a failure
savePodcastToD1(topic, sl, url, st, outcome) ==
    [threw |-> FALSE,
     store |-> IF outcome = "ok" THEN Append(st, insertedRow(topic, sl, url, now(st))) ELSE st]

Reverse(rs) == [i \in DOMAIN rs |-> rs[Len(rs) + 1 - i]]

\* SELECT ... ORDER BY created_at DESC LIMIT n
selectRecent(st, n) == SubSeq(Reverse(st), 1, Min(n, Len(st)))

TopicContains(row, term) == includes(toLowerCase(row.topic), toLowerCase(term))

\* SELECT ... WHERE topic LIKE '%term%' ORDER BY created_at DESC
selectLike(st, term) ==
    LET matches(row) == TopicContains(row, term)
    IN  SelectSeq(Reverse(st), matches)

\* how a query of the store can end: curl fails, its output is not JSON, or it
\* is a JSON body of one of these shapes
StoreReplies ==
    {"transport", "unparseable", "notSuccess", "noResult", "emptyResult",
     "noResults", "ok"}

\* await ...stdout() or JSON.parse throws
replyThrows(reply) == reply \in {"transport", "unparseable"}

\* the parsed body: {success, result: [{results}]}, with what may be missing
storeBody(reply, rows) ==
    [success |-> reply # "notSuccess",
     hasResult |-> reply \in {"emptyResult", "noResults", "ok"},
     result |-> IF reply = "noResults" THEN <<[hasResults |-> FALSE, results |-> <<>>]>>
                ELSE IF reply = "ok" THEN <<[hasResults |-> TRUE, results |-> rows]>>
                ELSE <<>>]

\* response.success && response.result && response.result[0]
\*   && response.result[0].results
hasRows(body) ==
    body.success /\ body.hasResult /\ Len(body.result) > 0 /\ body.result[1].hasResults

-----------------------------------------------------------------------------
(* The fixed messages *)

MsgCredentialsDb ==
    "Error: Cloudflare credentials are required to access the database. Please provide all three secrets."

MsgCredentialsAi ==
    "Error: Cloudflare credentials are required to access the database and AI. Please provide all three secrets."

MsgNoPodcasts ==
    "No podcasts found in the database yet. Generate your first podcast to get started!"

MsgNoPodcastsToRecommend ==
    "No podcasts found in the database yet. Generate some podcasts first to get recommendations!"

MsgErrorRetrieving ==
    "Error retrieving podcasts from database. Make sure your credentials are correct."

-----------------------------------------------------------------------------
(* The wrappers, each as the function of its arguments, of the table and of *)
(* the replies its collaborators give: [status, result, calls, ...]         *)

\* limit || 10 (line 313); an absent limit and 0 are both falsy, both 0 here
DefaultLimit == 10

maxResults(limit) == IF limit = 0 THEN DefaultLimit ELSE limit

\* LIMIT 50 (line 400)
RecommendLimit == 50

Returned(r, cs) == [status |-> "returned", result |-> r, calls |-> cs]

\* the mistake of formatting an empty list instead of reporting it
listOrMessage_NoEmptyCheck(body, emptyMessage, listKind, heading) ==
    IF hasRows(body)
    THEN Formatted(listKind, heading, body.result[1].results)
    ELSE Fixed("errorRetrieving", MsgErrorRetrieving)

\* lines 333-354 and 522-543: from the parsed body to the returned text
listOrMessage(body, emptyMessage, listKind, heading) ==
    IF hasRows(body)
    THEN LET podcasts == body.result[1].results
         IN  IF Len(podcasts) = 0 THEN emptyMessage
             ELSE Formatted(listKind, heading, podcasts)
    ELSE Fixed("errorRetrieving", MsgErrorRetrieving)

\* the mistake of sending the query again when it failed
getPreviousPodcasts_Retry(limit, c, st, reply) ==
    IF credentialsMissing(c)
    THEN Returned(Fixed("credentialsRequired", MsgCredentialsDb), <<>>)
    ELSE LET cs == <<Call("store:select", reply)>>
         IN  IF replyThrows(reply)
             THEN Returned(Fixed("errorQuerying", "Error querying database: ${error}"),
                           cs \o cs)
             ELSE Returned(listOrMessage(storeBody(reply, selectRecent(st, maxResults(limit))),
                                         Fixed("noPodcasts", MsgNoPodcasts),
                                         "found", <<>>), cs)

\* getPreviousPodcasts (lines 289-358)
getPreviousPodcasts(limit, c, st, reply) ==
    IF credentialsMissing(c)
    THEN Returned(Fixed("credentialsRequired", MsgCredentialsDb), <<>>)
    ELSE LET cs == <<Call("store:select", reply)>>
         IN  IF replyThrows(reply)
             THEN Returned(Fixed("errorQuerying", "Error querying database: ${error}"), cs)
             ELSE Returned(listOrMessage(storeBody(reply, selectRecent(st, maxResults(limit))),
                                         Fixed("noPodcasts", MsgNoPodcasts),
                                         "found", <<>>), cs)

\* searchPodcasts (lines 480-547)
searchPodcasts(searchTerm, c, st, reply) ==
    IF credentialsMissing(c)
    THEN Returned(Fixed("credentialsRequired", MsgCredentialsDb), <<>>)
    ELSE LET cs == <<Call("store:search", reply)>>
         IN  IF replyThrows(reply)
             THEN Returned(Fixed("errorSearching", "Error searching database: ${error}"), cs)
             ELSE Returned(listOrMessage(storeBody(reply, selectLike(st, searchTerm)),
                                         Formatted("noneMatching", searchTerm, <<>>),
                                         "foundMatching", searchTerm), cs)

\* how the inference call can end: curl fails, its output is not JSON, or it is
\* a JSON body without success, without result.response, or with both
InferenceReplies == {"transport", "unparseable", "notSuccess", "noResponse", "ok"}

\* what the inference collaborator recommends: free text
recommendation(preference, podcasts) == Formatted("aiRecommendation", preference, podcasts)

\* aiResponse.success && aiResponse.result && aiResponse.result.response
hasRecommendation(reply) == reply = "ok"

\* lines 458-469: the first row whose topic contains one of the preference's
\* space-separated pieces
keywordFallback(preference, podcasts) ==
    LET keywords == splitSpace(toLowerCase(preference))
        isMatch(podcast) ==
            \E k \in DOMAIN keywords : includes(toLowerCase(podcast.topic), keywords[k])
        matches == SelectSeq(podcasts, isMatch)
    IN  IF Len(matches) > 0
        THEN Formatted("match", preference, <<matches[1]>>)
        ELSE Formatted("noMatch", preference, <<>>)

\* recommendPodcast (lines 364-474)
recommendPodcast(preference, c, st, dbReply, aiReply) ==
    LET csDb == <<Call("store:select", dbReply)>>
        csAi == csDb \o <<Call("ai:recommend", aiReply)>>
        thrown == Fixed("errorRecommending", "Error getting recommendations: ${error}")
        dbBody == storeBody(dbReply, selectRecent(st, RecommendLimit))
    IN  IF credentialsMissing(c)
        THEN Returned(Fixed("credentialsRequired", MsgCredentialsAi), <<>>)
        ELSE IF replyThrows(dbReply) THEN Returned(thrown, csDb)
        ELSE IF ~hasRows(dbBody)
        THEN Returned(Fixed("errorRetrieving", MsgErrorRetrieving), csDb)
        ELSE LET podcasts == dbBody.result[1].results
             IN  IF Len(podcasts) = 0
                 THEN Returned(Fixed("noPodcasts", MsgNoPodcastsToRecommend), csDb)
                 ELSE IF replyThrows(aiReply) THEN Returned(thrown, csAi)
                 ELSE IF hasRecommendation(aiReply)
                 THEN Returned(recommendation(preference, podcasts), csAi)
                 ELSE Returned(keywordFallback(preference, podcasts), csAi)

\* await work.sync().toString() (line 214): the string of the Promise
announcementRead(q, url, outcome) == Text("string", PromiseString)

\* generatePodcast of the current class (lines 161-222). o1 and o2 are what
\* becomes of the two requests sync() sends, po of the INSERT.
generatePodcast(q, b, c, st, d, o1, o2, po) ==
    LET sl == generateLLMSlug(q, d)
        url == composeUrl(b, sl)
        response == announcementRead(q, url, o2)
        saved == IF allCredentials(c) THEN savePodcastToD1(q, sl, url, st, po)
                 ELSE [threw |-> FALSE, store |-> st]
        cs == <<Call("llm:slug", o1), Call("llm:announce", o2)>>
                \o (IF allCredentials(c) THEN <<Call("store:insert", po)>> ELSE <<>>)
    IN  [status |-> IF saved.threw THEN "raised" ELSE "returned",
         result |-> IF saved.threw THEN NoResult ELSE response,
         calls |-> cs,
         slug |-> sl,
         fullUrl |-> url,
         llmResponse |-> response,
         unhandled |-> {cs[i].to : i \in {j \in 1..2 : cs[j].reply = "rejected"}},
         store |-> saved.store]

-----------------------------------------------------------------------------
(* The invocations *)

CredChoices == [accountId : BOOLEAN, databaseId : BOOLEAN, apiToken : BOOLEAN]

QueryChoices == {<<"a","i">>, <<"c","o","o","k","i","n","g">>}

PreferenceChoices == {<<"s","o","m","e","t","h","i","n","g"," ","a","b","o","u","t"," ","a","i">>, <<"j","a","z","z">>}

SearchChoices == {<<"a","i">>, <<"j","a","z","z">>}

\* a base with the trailing slash composeUrl removes, and one that ends in a
\* backslash; generateUrl is given the other bases, the absent one among them
BaseChoices == {Base(<<"x", "/">>), Base(<<"x", "\\">>)}

LimitChoices == {0, 1}

\* the table is filled up to this many rows
MaxStore == 2

Init ==
    /\ fn = "none"
    /\ query = <<>>
    /\ baseUrl = NoBase
    /\ creds = NoCreds
    /\ slug = <<>>
    /\ fullUrl = <<>>
    /\ llmResponse = NoResult
    /\ calls = <<>>
    /\ unhandled = {}
    /\ status = "idle"
    /\ result = NoResult
    /\ store = <<>>

\* a reply is drawn only for a call the invocation makes
NoReply == "none"

GeneratePodcast ==
    \E q \in QueryChoices, b \in BaseChoices, c \in CredChoices, d \in DescriptorChoices,
       o1 \in LLMOutcomes, o2 \in LLMOutcomes :
      \E po \in IF allCredentials(c) THEN PersistOutcomes ELSE {NoReply} :
        LET out == generatePodcast(q, b, c, store, d, o1, o2, po)
        IN  /\ status = "idle"
            /\ Len(store) < MaxStore
            /\ fn' = "generatePodcast"
            /\ query' = q
            /\ baseUrl' = b
            /\ creds' = c
            /\ slug' = out.slug
            /\ fullUrl' = out.fullUrl
            /\ llmResponse' = out.llmResponse
            /\ calls' = out.calls
            /\ unhandled' = out.unhandled
            /\ status' = out.status
            /\ result' = out.result
            /\ store' = out.store

\* an invocation that reads the table and composes no URL
ReadOnly(name, arg, c, out) ==
    /\ status = "idle"
    /\ fn' = name
    /\ query' = arg
    /\ baseUrl' = NoBase
    /\ creds' = c
    /\ slug' = <<>>
    /\ fullUrl' = <<>>
    /\ llmResponse' = NoResult
    /\ calls' = out.calls
    /\ unhandled' = {}
    /\ status' = out.status
    /\ result' = out.result
    /\ UNCHANGED store

GetPreviousPodcasts ==
    \E limit \in LimitChoices, c \in CredChoices :
      \E reply \in IF credentialsMissing(c) THEN {NoReply} ELSE StoreReplies :
        ReadOnly("getPreviousPodcasts", <<>>, c, getPreviousPodcasts(limit, c, store, reply))

SearchPodcasts ==
    \E term \in SearchChoices, c \in CredChoices :
      \E reply \in IF credentialsMissing(c) THEN {NoReply} ELSE StoreReplies :
        ReadOnly("searchPodcasts", term, c, searchPodcasts(term, c, store, reply))

RecommendPodcast ==
    \E p \in PreferenceChoices, c \in CredChoices :
      \E dbReply \in IF credentialsMissing(c) THEN {NoReply} ELSE StoreReplies :
        \E aiReply \in IF dbReply = "ok" /\ store # <<>> THEN InferenceReplies ELSE {NoReply} :
          ReadOnly("recommendPodcast", p, c, recommendPodcast(p, c, store, dbReply, aiReply))

\* The class has no fields (lines 155-156): nothing but the table outlives an
\* invocation, and the next one starts from its arguments alone.
NextInvocation ==
    /\ status # "idle"
    /\ fn' = "none"
    /\ query' = <<>>
    /\ baseUrl' = NoBase
    /\ creds' = NoCreds
    /\ slug' = <<>>
    /\ fullUrl' = <<>>
    /\ llmResponse' = NoResult
    /\ calls' = <<>>
    /\ unhandled' = {}
    /\ status' = "idle"
    /\ result' = NoResult
    /\ UNCHANGED store

Next ==
    \/ GeneratePodcast
    \/ GetPreviousPodcasts
    \/ SearchPodcasts
    \/ RecommendPodcast
    \/ NextInvocation

Spec == Init /\ [][Next]_vars

-----------------------------------------------------------------------------
(* generateSlug and generateUrl, on inputs long enough to reach the limit.  *)
(* Neither reads nor writes anything an earlier invocation left, so each    *)
(* behaviour is one invocation on one input.                                *)

\* the characters inputs are built from: letters of both cases, a digit,
\* whitespace, the two separators and a special character
InputChars == {"a", "B", "7", " ", "-", "_", "!"}

\* an input is a concatenation of at most MaxRuns runs of one character
RunLengths == {1, 24}

MaxRuns == 3

Run(c, n) == [i \in 1..n |-> c]

RECURSIVE InputsOfRuns(_)
InputsOfRuns(k) ==
    IF k = 0 THEN {<<>>}
    ELSE LET shorter == InputsOfRuns(k - 1)
         IN  shorter \cup {s \o Run(c, n) : s \in shorter, c \in InputChars, n \in RunLengths}

SlugInputs == InputsOfRuns(MaxRuns)

BaseInputs ==
    {NoBase, Base(<<>>), Base(<<"/">>), Base(<<"x">>), Base(<<"x","/">>),
     Base(<<"x","/","/">>)}

SlugInit ==
    /\ fn = "none"
    /\ query \in SlugInputs
    /\ baseUrl = NoBase
    /\ creds = NoCreds
    /\ slug = <<>>
    /\ fullUrl = <<>>
    /\ llmResponse = NoResult
    /\ calls = <<>>
    /\ unhandled = {}
    /\ status = "idle"
    /\ result = NoResult
    /\ store = <<>>

\* generateSlug (lines 275-283)
GenerateSlug ==
    \E d \in DescriptorChoices :
        /\ status = "idle"
        /\ fn' = "generateSlug"
        /\ slug' = createSlug(query, d)
        /\ result' = Text("slug", slug')
        /\ status' = "returned"
        /\ baseUrl' = NoBase
        /\ fullUrl' = <<>>
        /\ UNCHANGED <<query, creds, llmResponse, calls, unhandled, store>>

\* generateUrl (lines 67-83), of the first class: its createSlug is lines 140-151
GenerateUrl ==
    \E b \in BaseInputs :
        /\ status = "idle"
        /\ fn' = "generateUrl"
        /\ baseUrl' = b
        /\ slug' = createSlug_v1(query)
        /\ fullUrl' = composeUrl(b, slug')
        /\ result' = Text("url", fullUrl')
        /\ status' = "returned"
        /\ UNCHANGED <<query, creds, llmResponse, calls, unhandled, store>>

\* lines 257-258 of generateLLMSlug, the input taken as the string rawSlug the
\* collaborator's candidate was read into
CleanLLMCandidate ==
    /\ status = "idle"
    /\ fn' = "cleanCandidate"
    /\ slug' = cleanCandidate(query)
    /\ result' = Text("cleanedSlug", slug')
    /\ status' = "returned"
    /\ baseUrl' = NoBase
    /\ fullUrl' = <<>>
    /\ UNCHANGED <<query, creds, llmResponse, calls, unhandled, store>>

SlugNext == GenerateSlug \/ GenerateUrl \/ CleanLLMCandidate

SlugSpec == SlugInit /\ [][SlugNext]_vars

-----------------------------------------------------------------------------
(* Properties of the slug and of the URL *)

SlugChars == LowerLetters \cup Digits

\* s matches ^[a-z0-9]+(-[a-z0-9]+)*$
MatchesSlugPattern(s) ==
    /\ Len(s) > 0
    /\ \A i \in DOMAIN s : s[i] \in SlugChars \cup {"-"}
    /\ s[1] # "-"
    /\ s[Len(s)] # "-"
    /\ \A i \in 1..(Len(s) - 1) : ~(s[i] = "-" /\ s[i + 1] = "-")

DescriptorTokens == Range(descriptors)

\* every word of q (a maximal run of non-whitespace) has at most two characters
OnlyShortWords(q) ==
    \A i \in 1..(Len(q) - 2) : IsSpace(q[i]) \/ IsSpace(q[i + 1]) \/ IsSpace(q[i + 2])

\* the slugs createSlug can give for q
CreateSlugResults(q) == {createSlug(q, d) : d \in DescriptorChoices}

\* C1: for every non-empty input, the slug generateSlug returns matches
\* ^[a-z0-9]+(-[a-z0-9]+)*$ and has at most 50 characters (so the truncation
\* leaves no trailing hyphen).
C1_SlugPatternAndLength ==
    (fn = "generateSlug" /\ query # <<>>) =>
        (MatchesSlugPattern(slug) /\ Len(slug) <= 50)

\* C2: when the input is empty, whitespace-only or has only words of at most
\* two characters, the slug is exactly one of the eight descriptor tokens.
C2_ShortInputGivesDescriptor ==
    (fn = "generateSlug" /\ OnlyShortWords(query)) => slug \in DescriptorTokens

C2_Witness ==
    /\ fn = "generateSlug"
    /\ query = <<"a", " ", "B">>
    /\ slug = <<"g","u","i","d","e">>

\* the base the claim composes from, when only an absent base is defaulted
BaseWhenAbsentDefaulted(b) == IF b.given THEN b.value ELSE DefaultBase

\* the same, when an empty base is defaulted too
BaseWhenFalsyDefaulted(b) == IF b.given /\ b.value # <<>> THEN b.value ELSE DefaultBase

EndsWithSlash(b) == b # <<>> /\ b[Len(b)] = "/"

WithoutOneTrailingSlash(b) ==
    IF EndsWithSlash(b) THEN [i \in 1..(Len(b) - 1) |-> b[i]] ELSE b

\* C3 as stated: the URL is base' + "/" + slug, base' the base less one
\* trailing "/", only an absent base being replaced by the default; so a base
\* with and without a single trailing slash give the same URL.
C3_AbsentBaseDefaulted ==
    fn = "generateUrl" =>
        /\ fullUrl = WithoutOneTrailingSlash(BaseWhenAbsentDefaulted(baseUrl))
                        \o <<"/">> \o slug
        /\ (baseUrl.given /\ ~EndsWithSlash(baseUrl.value)) =>
              composeUrl(Base(baseUrl.value \o <<"/">>), slug) = fullUrl

\* C3 amended: an absent or empty base is replaced by the default, and a
\* non-empty base with and without a single trailing slash give the same URL.
C3_UrlComposition ==
    fn = "generateUrl" =>
        /\ fullUrl = WithoutOneTrailingSlash(BaseWhenFalsyDefaulted(baseUrl))
                        \o <<"/">> \o slug
        /\ result = Text("url", fullUrl)
        /\ (baseUrl.given /\ baseUrl.value # <<>> /\ ~EndsWithSlash(baseUrl.value)) =>
              composeUrl(Base(baseUrl.value \o <<"/">>), slug) = fullUrl

C3_Witness ==
    /\ fn = "generateUrl"
    /\ baseUrl = Base(<<"x", "/">>)
    /\ query = <<"a", "!", "B">>
    /\ fullUrl = <<"x", "/", "a", "b">>

\* C11: createSlug returns a non-empty string for every input (the empty
\* input, input made only of punctuation and input whose kept words exceed 50
\* characters included) and never raises.
C11_SlugNeverEmpty ==
    fn = "generateSlug" =>
        /\ status = "returned"
        /\ slug # <<>>
        /\ result = Text("slug", slug)

\* a single word of 72 characters: the slug is its first 50
C11_Witness ==
    /\ fn = "generateSlug"
    /\ query = Run("a", 72)
    /\ status = "returned"
    /\ slug = Run("a", 50)

\* the descriptor choices that give the slug the invocation returned
DescriptorsOfSlug == {d \in DescriptorChoices : slug = createSlug(query, d)}

\* the cleaned string of lines 605-608, before substring(0, 50)
BeforeTruncation(q, d) == cleanAndFormat(complexSlug(q, d))

EndsWith(s, t) == Len(s) >= Len(t) /\ SubSeq(s, Len(s) - Len(t) + 1, Len(s)) = t

\* C12: the slug ends with one of the eight descriptor tokens when the cleaned
\* string before truncation has at most 50 characters, and in every case at
\* least part of the appended descriptor is left in the slug.
C12_DescriptorSurvivesTruncation ==
    fn = "generateSlug" =>
        \A d \in DescriptorsOfSlug :
            /\ Len(BeforeTruncation(query, d)) <= 50 => EndsWith(slug, descriptors[d])
            /\ Len(slug) > Len(BeforeTruncation(query, d)) - Len(descriptors[d])

\* C15: the cleaning generateLLMSlug applies to the collaborator's candidate
\* gives, for every candidate, what steps 5-7 of createSlug (lines 605-608)
\* give for it; whitespace or underscores between words become one hyphen.
C15_CandidateCleanedAsCreateSlug ==
    fn = "cleanCandidate" => slug = cleanAndFormat(query)

-----------------------------------------------------------------------------
(* Properties of the wrappers *)

Wrappers == {"generatePodcast", "getPreviousPodcasts", "searchPodcasts", "recommendPodcast"}

HasAllCredentials == creds.accountId /\ creds.databaseId /\ creds.apiToken

\* the replies that are a failure of the collaborator: a transport error, a
\* parse failure or a body of the wrong shape
FailureReplies ==
    {"rejected", "transport", "unparseable", "apiError", "notSuccess", "noResult",
     "emptyResult", "noResults", "noResponse"}

\* the collaborator calls of the invocation that failed
Failed == {calls[i].to : i \in {j \in DOMAIN calls : calls[j].reply \in FailureReplies}}

\* the reply to the invocation's call to `to`, if it made one
ReplyTo(to) ==
    IF \E i \in DOMAIN calls : calls[i].to = to
    THEN calls[CHOOSE i \in DOMAIN calls : calls[i].to = to].reply
    ELSE NoReply

\* the texts that describe a failure or a fallback
DescriptiveKinds ==
    {"errorRetrieving", "errorQuerying", "errorSearching", "errorRecommending",
     "match", "noMatch"}

\* C4: getPreviousPodcasts, searchPodcasts and recommendPodcast, called with
\* any of the three credentials missing, return the fixed credentials-required
\* message and make no outbound call.
C4_MissingCredentialsShortCircuit ==
    (fn \in {"getPreviousPodcasts", "searchPodcasts", "recommendPodcast"}
        /\ ~HasAllCredentials) =>
        /\ status = "returned"
        /\ result = Fixed("credentialsRequired",
                          IF fn = "recommendPodcast" THEN MsgCredentialsAi
                          ELSE MsgCredentialsDb)
        /\ calls = <<>>

C4_Witness ==
    /\ fn = "searchPodcasts"
    /\ creds = [accountId |-> TRUE, databaseId |-> TRUE, apiToken |-> FALSE]
    /\ store # <<>>
    /\ status = "returned"
    /\ result.kind = "credentialsRequired"
    /\ calls = <<>>

\* C5: in all four wrappers a failure of any collaborator ends in a returned
\* descriptive text (the swallowed persist failure aside, whose text is the
\* announcement); no failure is raised or left unhandled.
C5_FailuresBecomeText ==
    (fn \in Wrappers /\ Failed # {}) =>
        /\ status = "returned"
        /\ unhandled = {}
        /\ (Failed # {"store:insert"}) => result.kind \in DescriptiveKinds

\* C6: a failure of the persist step never fails generatePodcast: it returns
\* what line 214 read, whether the INSERT was applied, failed or was skipped.
C6_PersistFailureIsolated ==
    fn = "generatePodcast" =>
        /\ status = "returned"
        /\ result = llmResponse
        /\ result.kind # "none"

C6_Witness ==
    /\ fn = "generatePodcast"
    /\ HasAllCredentials
    /\ ReplyTo("store:insert") = "transport"
    /\ status = "returned"
    /\ result = llmResponse

\* the rows recommendPodcast was given, most recent first
RecommendRows == selectRecent(store, RecommendLimit)

\* the positions of the rows whose topic contains a word of the preference
RowsWithWord ==
    LET words == splitSpace(toLowerCase(query))
    IN  {i \in DOMAIN RecommendRows :
            \E w \in DOMAIN words :
                includes(toLowerCase(RecommendRows[i].topic), words[w])}

\* C7: in recommendPodcast, when the store returned at least one row and the
\* inference call fails (transport, unparseable) or lacks the expected shape,
\* the result is the first row whose topic contains a word of the preference,
\* or the no-match message.
C7_InferenceFailureFallsBack ==
    (fn = "recommendPodcast"
        /\ ReplyTo("ai:recommend") \in {"transport", "unparseable", "notSuccess", "noResponse"}) =>
        IF RowsWithWord = {}
        THEN result.kind = "noMatch"
        ELSE /\ result.kind = "match"
             /\ result.rows =
                  <<RecommendRows[CHOOSE i \in RowsWithWord : \A j \in RowsWithWord : i <= j]>>

\* C8: with all three credentials, getPreviousPodcasts returns the "empty"
\* message for a successful response with zero rows and the "error retrieving"
\* message for an unsuccessful response or one lacking result[0].results, and
\* never raises.
C8_ListResponseMapping ==
    (fn = "getPreviousPodcasts" /\ HasAllCredentials) =>
        /\ status = "returned"
        /\ (ReplyTo("store:select") = "ok" /\ store = <<>>) =>
              result = Fixed("noPodcasts", MsgNoPodcasts)
        /\ (ReplyTo("store:select") \in {"notSuccess", "noResult", "emptyResult", "noResults"}) =>
              result = Fixed("errorRetrieving", MsgErrorRetrieving)

C8_Witness ==
    /\ fn = "getPreviousPodcasts"
    /\ HasAllCredentials
    /\ ReplyTo("store:select") = "notSuccess"
    /\ Len(store) = 2
    /\ result = Fixed("errorRetrieving", MsgErrorRetrieving)

CallsTo == [i \in DOMAIN calls |-> calls[i].to]

NoCallRepeated == \A i, j \in DOMAIN calls : calls[i].to = calls[j].to => i = j

\* C13 as stated: a wrapper makes at most two outbound collaborator calls in
\* an invocation, one after the other, and repeats none after a failure.
C13_AtMostTwoCalls ==
    fn \in Wrappers => (Len(calls) <= 2 /\ NoCallRepeated)

\* C13 amended: a wrapper issues at most three outbound calls in an invocation
\* (generatePodcast the two text-completion calls and, with all three
\* credentials, the INSERT; getPreviousPodcasts and searchPodcasts at most one
\* query; recommendPodcast the query and, after its rows, the inference call),
\* in that order, and repeats none after a failure.
C13_CallsBoundedNoRetry ==
    fn \in Wrappers =>
        /\ Len(calls) <= 3
        /\ NoCallRepeated
        /\ fn = "generatePodcast" =>
              CallsTo = <<"llm:slug", "llm:announce">>
                          \o (IF HasAllCredentials THEN <<"store:insert">> ELSE <<>>)
        /\ fn = "getPreviousPodcasts" => CallsTo \in {<<>>, <<"store:select">>}
        /\ fn = "searchPodcasts" => CallsTo \in {<<>>, <<"store:search">>}
        /\ fn = "recommendPodcast" =>
              /\ CallsTo \in {<<>>, <<"store:select">>, <<"store:select", "ai:recommend">>}
              /\ Len(calls) = 2 => calls[1].reply = "ok"

C13_Witness ==
    /\ fn = "generatePodcast"
    /\ HasAllCredentials
    /\ Len(calls) = 3
    /\ calls[1].reply = "rejected"
    /\ calls[3].reply = "transport"
    /\ status = "returned"

\* st2 is st with rows added at its end
IsExtensionOf(st2, st) == Len(st2) >= Len(st) /\ SubSeq(st2, 1, Len(st)) = st

\* base without one trailing slash + "/" + slug
ComposedUrl(b, sl) ==
    WithoutOneTrailingSlash(BaseWhenFalsyDefaulted(b)) \o <<"/">> \o sl

\* the store changes only by one row appended
AppendsAtMostOne == IsExtensionOf(store', store) /\ Len(store') <= Len(store) + 1

\* a row is written only by generatePodcast with all three credentials, by
\* the INSERT it issues after the two text-completion calls
WrittenOnlyByGeneratePodcast ==
    store' # store =>
        /\ fn' = "generatePodcast"
        /\ creds'.accountId /\ creds'.databaseId /\ creds'.apiToken
        /\ [i \in DOMAIN calls' |-> calls'[i].to]
              = <<"llm:slug", "llm:announce", "store:insert">>

\* the written row's url is the URL composed for the slug of the same row
WrittenUrlIsComposed ==
    store' # store =>
        store'[Len(store')].url = ComposedUrl(baseUrl', store'[Len(store')].slug)

\* C14: the stored records are append-only: the only write is one INSERT by
\* generatePodcast, with all three credentials and after the text completion;
\* every other invocation leaves the store unchanged; no record is updated or
\* deleted; each inserted record's url is the composed URL for its slug.
C14_StoreAppendOnly ==
    [][AppendsAtMostOne /\ WrittenOnlyByGeneratePodcast /\ WrittenUrlIsComposed]_vars

\* C10: generatePodcast returns the text the completion collaborator wrote for
\* the prompt built from the query and the URL composed for the slug of the
\* same call.
C10_ReturnsCompletionVerbatim ==
    (fn = "generatePodcast" /\ status = "returned" /\ ReplyTo("llm:announce") = "resolved") =>
        /\ fullUrl = composeUrl(baseUrl, slug)
        /\ result = completion(query, fullUrl)

====
